---- MODULE Spec2Model ----
(***************************************************************************)
(* Model of the Twitch -> Discord live bot (src/index.ts): the polling     *)
(* loop mainLoop / checkAllChannels over the SQLite tables Channels,       *)
(* ChannelData, MessageHistory and ErrorLog, the Twitch helpers            *)
(* fetchChannelID / fetchIsLive and the Discord webhook client.            *)
(*                                                                         *)
(* One action per run-to-completion segment of checkAllChannels: the code  *)
(* between two awaits, cut further at each database write so that a        *)
(* process stop between two writes is a state of the model.                *)
(***************************************************************************)
EXTENDS Integers, Sequences, FiniteSets, TLC

\* ---------------------------------------------------------------- bounds
\* Date.now() ranges over 0 .. MaxIntervals refresh intervals (see Times).
MaxIntervals == 1
\* Messages the webhook creates (and so rows of ChannelData) in one run.
MaxSessions == 2
\* Rows of ErrorLog: no further failure is injected once it is full.
MaxErrors == 1
\* Hours a session lasts in DurationSpec: 0 .. MaxHours, and minutes on top.
MaxHours == 2

\* ------------------------------------------------------- program constants
THUMBNAIL_REFRESH_INTERVAL == 10 * 60 * 1000

\* SQL NULL in an INTEGER column (endTime, lastThumbUpdate).
NULL == -1

\* config.json: the ordered list of channel names; "nova" is listed twice.
config == [channels |-> <<"nova", "nova">>]

\* The Twitch user id helix/users returns for a login name.
TwitchUserId == [nova |-> "101"]

\* IStreamData.thumbnail_url as helix/streams returns it, cut into tokens.
ThumbnailTemplate == <<"https://x/", "{width}", "x", "{height}", ".jpg">>

\* The instants Date.now() can return in a run: the start, each multiple of
\* the refresh interval, and the millisecond before the first.
Times == {0, THUMBNAIL_REFRESH_INTERVAL - 1} \cup
         {k * THUMBNAIL_REFRESH_INTERVAL : k \in 1..MaxIntervals}

\* No stream (fetchIsLive returned null) and no row (.get() returned null).
NoStream == [live |-> FALSE]
NoRow == [rowid |-> 0]

VARIABLES
    proc,            \* "up" | "down": the bun process
    timer,           \* a setTimeout(mainLoop, 60000) is pending
    pc,              \* where checkAllChannels / mainLoop stands
    i,               \* index into config.channels of the for loop
    Channels,        \* table Channels: set of [channelName, channelID]
    ChannelData,     \* table ChannelData: sequence of rows, rowid = index
    MessageHistory,  \* table MessageHistory: sequence of rows
    ErrorLog,        \* table ErrorLog: sequence of rows
    clock,           \* the last value Date.now() returned
    nextMsg,         \* the id the webhook gives the next message it creates
    loc,             \* the locals of the current loop iteration
    calls,           \* webhook calls issued in the current loop iteration
    pre,             \* the tables as they were when the iteration began
    fresh            \* the process has completed no loop iteration since it started

vars == <<proc, timer, pc, i, Channels, ChannelData, MessageHistory, ErrorLog,
          clock, nextMsg, loc, calls, pre, fresh>>

db == <<Channels, ChannelData, MessageHistory, ErrorLog>>

\* The locals of one iteration before any is assigned.
NoLocals == [channelID |-> "", answer |-> "", streamData |-> NoStream,
             currentStreamRow |-> NoRow, startTime |-> NULL, imageT |-> NULL,
             now |-> NULL, endTime |-> NULL, messageID |-> 0, edit |-> "",
             err |-> ""]

\* ------------------------------------------------------------ pure helpers
RECURSIVE replace(_, _, _)
\* String.prototype.replace(pattern, replacement) with a string pattern:
\* the first occurrence only.
replace(s, pattern, replacement) ==
    IF s = <<>> THEN <<>>
    ELSE IF Head(s) = pattern THEN <<replacement>> \o Tail(s)
    ELSE <<Head(s)>> \o replace(Tail(s), pattern, replacement)

\* Mutant of baseThumbUrl: the template stored as it came.
baseThumbUrl_raw(streamData) == streamData.thumbnail_url

baseThumbUrl(streamData) ==
    replace(replace(streamData.thumbnail_url, "{width}", "1280"), "{height}", "720")

messageLink(messageID) == <<"https://discord.com/channels/.../", messageID>>

vodLink(channelName) == <<"https://www.twitch.tv/", channelName, "/videos">>

\* Mutant of vodDuration: the `if (durationHours <= 0)` of line 370 missing.
vodDuration_alwaysHours(durationMs) ==
    [text |-> "h m", h |-> durationMs \div (1000 * 60 * 60),
     m |-> (durationMs % (1000 * 60 * 60)) \div (1000 * 60)]

\* `${durationHours}h ${durationMinutes}m`, or `${durationMinutes}m` alone.
\* durationHours is Math.floor(durationMs / 1000 / 60 / 60); durationMinutes
\* is Math.floor((durationMs / 1000 / 60) % 60): the remainder of the minutes
\* (a real number) by 60 is taken first and floored afterwards, which on
\* milliseconds is the remainder by an hour divided by a minute.
vodDuration(durationMs) ==
    LET durationHours == durationMs \div (1000 * 60 * 60)
        durationMinutes == (durationMs % (1000 * 60 * 60)) \div (1000 * 60)
    IN  IF durationHours <= 0
        THEN [text |-> "m", h |-> NULL, m |-> durationMinutes]
        ELSE [text |-> "h m", h |-> durationHours, m |-> durationMinutes]

\* SELECT channelID FROM Channels WHERE channelName = ?  (.get: one row or none)
channelRow(channelName) ==
    IF \E r \in Channels : r.channelName = channelName
    THEN (CHOOSE r \in Channels : r.channelName = channelName).channelID
    ELSE ""

\* Mutant of openRows: the query written with endTime IS NOT NULL.
openRows_closed(channelID) ==
    {k \in 1..Len(ChannelData) :
        ChannelData[k].channel = channelID /\ ChannelData[k].endTime # NULL}

\* SELECT rowid, ... FROM ChannelData WHERE channel = ? AND endTime IS NULL
\* (.get: the first such row, with its rowid, or none)
openRows(channelID) ==
    {k \in 1..Len(ChannelData) :
        ChannelData[k].channel = channelID /\ ChannelData[k].endTime = NULL}

currentStreamRow(channelID) ==
    IF openRows(channelID) = {} THEN NoRow
    ELSE LET k == CHOOSE k \in openRows(channelID) :
                      \A j \in openRows(channelID) : k <= j
         IN  [rowid |-> k, row |-> ChannelData[k]]

\* Mutant of closeSession: the UPDATE written with WHERE channel = ?.
closeSession_byChannel(endTime, streamRowId) ==
    [k \in 1..Len(ChannelData) |->
        IF ChannelData[k].channel = ChannelData[streamRowId].channel
        THEN [ChannelData[k] EXCEPT !.endTime = endTime]
        ELSE ChannelData[k]]

\* Mutant of closeSession: the UPDATE matches no row.
closeSession_noRow(endTime, streamRowId) == ChannelData

\* UPDATE ChannelData SET endTime = ? WHERE rowid = ?
closeSession(endTime, streamRowId) ==
    [ChannelData EXCEPT ![streamRowId].endTime = endTime]

\* Mutant of touchThumbnail: the UPDATE also rewrites startTime.
touchThumbnail_alsoStart(now, streamRowId) ==
    [ChannelData EXCEPT ![streamRowId].lastThumbUpdate = now,
                        ![streamRowId].startTime = now]

\* UPDATE ChannelData SET lastThumbUpdate = ? WHERE rowid = ?
touchThumbnail(now, streamRowId) ==
    [ChannelData EXCEPT ![streamRowId].lastThumbUpdate = now]

\* Mutant of refreshDue: the gate written with >.
refreshDue_strict(now, lastThumbUpdate) ==
    now - (IF lastThumbUpdate = NULL THEN 0 ELSE lastThumbUpdate)
        > THUMBNAIL_REFRESH_INTERVAL

\* Mutant of refreshDue: no gate, every live tick refreshes.
refreshDue_always(now, lastThumbUpdate) == TRUE

\* elapsedSinceLastUpdate >= THUMBNAIL_REFRESH_INTERVAL, with
\* elapsedSinceLastUpdate = now - (lastThumbUpdate ?? 0)
refreshDue(now, lastThumbUpdate) ==
    now - (IF lastThumbUpdate = NULL THEN 0 ELSE lastThumbUpdate)
        >= THUMBNAIL_REFRESH_INTERVAL

\* A failure that ends in an ErrorLog row is injected only while the table
\* has room.
CanFail == Len(ErrorLog) < MaxErrors

\* Twitch answers "live" for a channel with no open session only while the
\* webhook has message ids left.
CanStart == nextMsg <= MaxSessions

Snapshot == [Channels |-> Channels, ChannelData |-> ChannelData,
             MessageHistory |-> MessageHistory, ErrorLog |-> ErrorLog]

NoPre == [Channels |-> {}, ChannelData |-> <<>>, MessageHistory |-> <<>>,
          ErrorLog |-> <<>>]

\* ------------------------------------------------------------------- Init
Init ==
    /\ proc = "up"
    /\ timer = FALSE
    /\ pc = "loop"
    /\ i = 1
    /\ Channels = {}
    /\ ChannelData = <<>>
    /\ MessageHistory = <<>>
    /\ ErrorLog = <<>>
    /\ clock = 0
    /\ nextMsg = 1
    /\ loc = NoLocals
    /\ calls = <<>>
    /\ pre = NoPre
    /\ fresh = TRUE

\* An exception thrown inside the try of the loop body: control goes to the
\* catch of line 416 with the tables as they are.
Throw(what) ==
    /\ loc' = [loc EXCEPT !.err = what]
    /\ pc' = "catch"

\* logError's INSERT INTO ErrorLog. Of the row the model keeps errorType;
\* timestamp, description, line and trace are read by nothing in the program
\* (the error itself stays in loc.err while the iteration lasts).
logError(error, errorType) ==
    /\ ErrorLog' = Append(ErrorLog, [errorType |-> errorType])
    /\ UNCHANGED clock

\* logError's db.run throws: nothing is written (the timestamp it read is
\* lost with it).
logErrorThrows == UNCHANGED <<ErrorLog, clock>>

\* ---------------------------------------------------------------- actions
\* Top of the loop body: SELECT the channel's id by name.
QueryChannel ==
    /\ proc = "up" /\ pc = "loop"
    /\ pre' = Snapshot
    /\ calls' = <<>>
    /\ \/ /\ CanFail
          /\ Throw("store")
       \/ /\ channelRow(config.channels[i]) # ""
          /\ loc' = [loc EXCEPT !.channelID = channelRow(config.channels[i])]
          /\ pc' = "live"
       \/ /\ channelRow(config.channels[i]) = ""
          /\ loc' = loc
          /\ pc' = "resolve"
    /\ UNCHANGED <<fresh, proc, timer, i, db, clock, nextMsg>>

\* Mutant of FetchChannelID: the `continue` of line 232 missing, so that a
\* null id goes on to the liveness query.
FetchChannelID_noContinue ==
    /\ proc = "up" /\ pc = "resolve"
    /\ \/ /\ CanFail
          /\ Throw("oracle")
          /\ UNCHANGED Channels
       \/ /\ loc' = loc
          /\ pc' = "live"
          /\ UNCHANGED Channels
       \/ LET fetchedID == TwitchUserId[config.channels[i]]
          IN  \/ /\ CanFail \/ \E r \in Channels : r.channelID = fetchedID
                 /\ Throw("store")
                 /\ UNCHANGED Channels
              \/ /\ ~ \E r \in Channels : r.channelID = fetchedID
                 /\ Channels' = Channels \cup
                        {[channelName |-> config.channels[i], channelID |-> fetchedID]}
                 /\ loc' = [loc EXCEPT !.channelID = fetchedID]
                 /\ pc' = "live"
    /\ UNCHANGED <<fresh, proc, timer, i, ChannelData, MessageHistory, ErrorLog, clock,
                   nextMsg, calls, pre>>

\* await fetchChannelID(channelName), then INSERT INTO Channels.
FetchChannelID ==
    /\ proc = "up" /\ pc = "resolve"
    /\ \/ /\ CanFail                      \* getTwitchToken / fetch throws
          /\ Throw("oracle")
          /\ UNCHANGED Channels
       \/ /\ loc' = loc                   \* !resp.ok, or no such user: continue
          /\ pc' = "done"
          /\ UNCHANGED Channels
       \/ LET fetchedID == TwitchUserId[config.channels[i]]
          IN  \/ /\ CanFail \/ \E r \in Channels : r.channelID = fetchedID
                 /\ Throw("store")        \* db.run throws (PRIMARY KEY, I/O)
                 /\ UNCHANGED Channels
              \/ /\ ~ \E r \in Channels : r.channelID = fetchedID
                 /\ Channels' = Channels \cup
                        {[channelName |-> config.channels[i], channelID |-> fetchedID]}
                 /\ loc' = [loc EXCEPT !.channelID = fetchedID]
                 /\ pc' = "live"
    /\ UNCHANGED <<fresh, proc, timer, i, ChannelData, MessageHistory, ErrorLog, clock,
                   nextMsg, calls, pre>>

\* await fetchIsLive(channelID), SELECT the open ChannelData row, and branch.
FetchIsLive ==
    /\ proc = "up" /\ pc = "live"
    /\ \/ /\ CanFail                      \* getTwitchToken / fetch throws
          /\ loc' = [loc EXCEPT !.answer = "throw", !.err = "oracle"]
          /\ pc' = "catch"
       \/ /\ CanFail                      \* the SELECT throws
          /\ Throw("store")
       \/ \E answer \in {"live", "offline", "unknown"} :
            LET streamData == IF answer = "live"
                              THEN [live |-> TRUE, thumbnail_url |-> ThumbnailTemplate]
                              ELSE NoStream
                row == currentStreamRow(loc.channelID)
            IN  /\ (answer = "live" /\ row = NoRow) => CanStart
                /\ loc' = [loc EXCEPT !.answer = answer, !.streamData = streamData,
                                      !.currentStreamRow = row]
                /\ pc' = IF streamData.live
                         THEN (IF row = NoRow THEN "start" ELSE "continue")
                         ELSE (IF row # NoRow THEN "stop" ELSE "done")
    /\ UNCHANGED <<fresh, proc, timer, i, db, clock, nextMsg, calls, pre>>

\* [A] startTime = Date.now(), build the embed, await webhookClient.send.
StartSend ==
    /\ proc = "up" /\ pc = "start"
    /\ \E t1 \in Times, t2 \in Times :
          /\ clock <= t1 /\ t1 <= t2 /\ t2 <= t1 + 1
          /\ clock' = t2
          /\ calls' = Append(calls, [op |-> "send", ref |-> 0, kind |-> "live",
                                     image |-> baseThumbUrl(loc.streamData), t |-> t2])
          /\ \/ /\ loc' = [loc EXCEPT !.startTime = t1, !.imageT = t2,
                                       !.messageID = nextMsg]
                /\ nextMsg' = nextMsg + 1
                /\ pc' = "insert"
             \/ /\ CanFail
                /\ loc' = [loc EXCEPT !.startTime = t1, !.imageT = t2,
                                       !.err = "sink"]
                /\ pc' = "catch"
                /\ UNCHANGED nextMsg
    /\ UNCHANGED <<fresh, proc, timer, i, db, pre>>

\* Mutant of StartInsert: lastThumbUpdate written from startTime instead of
\* from a new Date.now().
StartInsert_singleT0 ==
    /\ proc = "up" /\ pc = "insert"
    /\ \/ /\ CanFail
          /\ Throw("store")
          /\ UNCHANGED <<ChannelData, clock>>
       \/ \E t \in Times :
            /\ t >= clock
            /\ clock' = t
            /\ ChannelData' = Append(ChannelData,
                  [channel |-> loc.channelID, startTime |-> loc.startTime,
                   endTime |-> NULL, messageID |-> loc.messageID,
                   messageLink |-> messageLink(loc.messageID),
                   thumbnailURL |-> baseThumbUrl(loc.streamData),
                   lastThumbUpdate |-> loc.startTime])
            /\ loc' = loc
            /\ pc' = "done"
    /\ UNCHANGED <<fresh, proc, timer, i, Channels, MessageHistory, ErrorLog, nextMsg,
                   calls, pre>>

\* INSERT INTO ChannelData with the sent message's id and Date.now().
StartInsert ==
    /\ proc = "up" /\ pc = "insert"
    /\ \/ /\ CanFail
          /\ Throw("store")
          /\ UNCHANGED <<ChannelData, clock>>
       \/ \E t \in Times :
            /\ t >= clock
            /\ clock' = t
            /\ ChannelData' = Append(ChannelData,
                  [channel |-> loc.channelID, startTime |-> loc.startTime,
                   endTime |-> NULL, messageID |-> loc.messageID,
                   messageLink |-> messageLink(loc.messageID),
                   thumbnailURL |-> baseThumbUrl(loc.streamData),
                   lastThumbUpdate |-> t])
            /\ loc' = loc
            /\ pc' = "done"
    /\ UNCHANGED <<fresh, proc, timer, i, Channels, MessageHistory, ErrorLog, nextMsg,
                   calls, pre>>

\* [B] still live: the time gate of the thumbnail refresh, and the call of
\* webhookClient.editMessage when it opens.
ContinueLive ==
    /\ proc = "up" /\ pc = "continue"
    /\ LET row == loc.currentStreamRow.row
       IN  IF row.thumbnailURL = <<>>
           THEN /\ pc' = "done"
                /\ UNCHANGED <<loc, clock, calls>>
           ELSE \E now \in Times :
                      /\ now >= clock
                      /\ clock' = now
                      /\ loc' = [loc EXCEPT !.now = now]
                      /\ IF refreshDue(now, row.lastThumbUpdate)
                         THEN /\ calls' = Append(calls,
                                    [op |-> "edit", ref |-> row.messageID,
                                     kind |-> "live", image |-> row.thumbnailURL,
                                     t |-> now])
                              /\ pc' = "refresh"
                         ELSE /\ calls' = calls
                              /\ pc' = "done"
    /\ UNCHANGED <<fresh, proc, timer, i, db, nextMsg, pre>>

\* The awaited editMessage returns or throws; UPDATE lastThumbUpdate; the
\* inner catch logs either failure as "ThumbnailRefresh".
RefreshResult ==
    /\ proc = "up" /\ pc = "refresh"
    /\ \/ /\ ChannelData' = touchThumbnail(loc.now, loc.currentStreamRow.rowid)
          /\ loc' = [loc EXCEPT !.edit = "ok"]
          /\ pc' = "done"
          /\ UNCHANGED <<ErrorLog, clock>>
       \/ \E what \in {"sink", "store"} :   \* editMessage, or the UPDATE, throws
            /\ CanFail
            /\ UNCHANGED ChannelData
            /\ \/ /\ logError(what, "ThumbnailRefresh")
                  /\ loc' = [loc EXCEPT !.err = what,
                        !.edit = IF what = "sink" THEN "failed" ELSE "ok"]
                  /\ pc' = "done"
               \/ /\ logErrorThrows
                  /\ loc' = [loc EXCEPT !.err = "logError",
                        !.edit = IF what = "sink" THEN "failed" ELSE "ok"]
                  /\ pc' = "catch"
    /\ UNCHANGED <<fresh, proc, timer, i, Channels, MessageHistory, nextMsg, calls, pre>>

\* Not live with an open row: endTime = Date.now(), UPDATE ... SET endTime.
StopUpdate ==
    /\ proc = "up" /\ pc = "stop"
    /\ \E endTime \in Times :
          /\ endTime >= clock
          /\ clock' = endTime
          /\ \/ /\ ChannelData' = closeSession(endTime, loc.currentStreamRow.rowid)
                /\ loc' = [loc EXCEPT !.endTime = endTime]
                /\ pc' = "history"
             \/ /\ CanFail
                /\ UNCHANGED ChannelData
                /\ loc' = [loc EXCEPT !.endTime = endTime, !.err = "store"]
                /\ pc' = "catch"
    /\ UNCHANGED <<fresh, proc, timer, i, Channels, MessageHistory, ErrorLog, nextMsg,
                   calls, pre>>

\* Compute the duration and INSERT INTO MessageHistory.
StopInsert ==
    /\ proc = "up" /\ pc = "history"
    /\ \/ LET row == loc.currentStreamRow.row
          IN  /\ MessageHistory' = Append(MessageHistory,
                    [channel |-> loc.channelID,
                     vodDuration |-> vodDuration(loc.endTime - row.startTime),
                     startTime |-> row.startTime, endTime |-> loc.endTime,
                     messageID |-> row.messageID, messageLink |-> row.messageLink,
                     vodLink |-> vodLink(config.channels[i])])
              /\ loc' = loc
              /\ pc' = "stopEdit"
       \/ /\ CanFail
          /\ UNCHANGED MessageHistory
          /\ Throw("store")
    /\ UNCHANGED <<fresh, proc, timer, i, Channels, ChannelData, ErrorLog, clock, nextMsg,
                   calls, pre>>

\* Mutant of StopEdit: the catch of a failed edit undoes the stop, setting the
\* row's endTime back to NULL.
StopEdit_reopens ==
    /\ proc = "up" /\ pc = "stopEdit"
    /\ calls' = Append(calls, [op |-> "edit", ref |-> loc.currentStreamRow.row.messageID,
                               kind |-> "ended", image |-> <<>>, t |-> loc.endTime])
    /\ \/ /\ loc' = [loc EXCEPT !.edit = "ok"]
          /\ pc' = "done"
          /\ UNCHANGED <<ErrorLog, clock, ChannelData>>
       \/ /\ CanFail
          /\ ChannelData' = closeSession(NULL, loc.currentStreamRow.rowid)
          /\ \/ /\ logError("sink", "StreamEndUpdate")
                /\ loc' = [loc EXCEPT !.err = "sink", !.edit = "failed"]
                /\ pc' = "done"
             \/ /\ logErrorThrows
                /\ loc' = [loc EXCEPT !.err = "logError", !.edit = "failed"]
                /\ pc' = "catch"
    /\ UNCHANGED <<fresh, proc, timer, i, Channels, MessageHistory, nextMsg, pre>>

\* Edit the original message to the "finished streaming" embed; the inner
\* catch logs a failure as "StreamEndUpdate".
StopEdit ==
    /\ proc = "up" /\ pc = "stopEdit"
    /\ calls' = Append(calls, [op |-> "edit", ref |-> loc.currentStreamRow.row.messageID,
                               kind |-> "ended", image |-> <<>>, t |-> loc.endTime])
    /\ \/ /\ loc' = [loc EXCEPT !.edit = "ok"]
          /\ pc' = "done"
          /\ UNCHANGED <<ErrorLog, clock>>
       \/ /\ CanFail                      \* editMessage throws
          /\ \/ /\ logError("sink", "StreamEndUpdate")
                /\ loc' = [loc EXCEPT !.err = "sink", !.edit = "failed"]
                /\ pc' = "done"
             \/ /\ logErrorThrows
                /\ loc' = [loc EXCEPT !.err = "logError", !.edit = "failed"]
                /\ pc' = "catch"
    /\ UNCHANGED <<fresh, proc, timer, i, Channels, ChannelData, MessageHistory, nextMsg, pre>>

\* catch (err) of the loop body: logError(err, "checkAllChannels").
CatchChannel ==
    /\ proc = "up" /\ pc = "catch"
    /\ \/ /\ logError(loc.err, "checkAllChannels")
          /\ pc' = "done"
       \/ /\ logErrorThrows             \* escapes checkAllChannels
          /\ pc' = "mainCatch"
    /\ UNCHANGED <<fresh, proc, timer, i, Channels, ChannelData, MessageHistory, nextMsg,
                   loc, calls, pre>>

\* Mutant of MainCatch: setTimeout after the try/catch instead of in finally,
\* so a throwing logError leaves the running process with no timer.
MainCatch_noFinally ==
    /\ proc = "up" /\ pc = "mainCatch"
    /\ \/ /\ logError("logError", "mainLoop")
          /\ proc' = "up" /\ timer' = TRUE /\ pc' = "idle"
       \/ /\ logErrorThrows
          /\ \/ proc' = "up" /\ timer' = FALSE /\ pc' = "idle"
             \/ proc' = "down" /\ timer' = FALSE /\ pc' = "off"
    /\ i' = 0
    /\ loc' = NoLocals /\ calls' = <<>> /\ pre' = NoPre /\ fresh' = FALSE
    /\ UNCHANGED <<Channels, ChannelData, MessageHistory, nextMsg>>

\* mainLoop's catch and finally after an error escaped checkAllChannels:
\* logError(error, "mainLoop"), then setTimeout(mainLoop, 60000). When
\* logError throws again the promise of mainLoop is rejected with no handler,
\* and the runtime either goes on or ends the process.
MainCatch ==
    /\ proc = "up" /\ pc = "mainCatch"
    /\ \/ /\ logError("logError", "mainLoop")
          /\ proc' = "up" /\ timer' = TRUE /\ pc' = "idle"
       \/ /\ logErrorThrows
          /\ \/ proc' = "up" /\ timer' = TRUE /\ pc' = "idle"
             \/ proc' = "down" /\ timer' = FALSE /\ pc' = "off"
    /\ i' = 0
    /\ loc' = NoLocals /\ calls' = <<>> /\ pre' = NoPre /\ fresh' = FALSE
    /\ UNCHANGED <<Channels, ChannelData, MessageHistory, nextMsg>>

\* Mutant of NextChannel: the iteration's variables declared outside the
\* loop, so that they outlive the iteration and the tick.
NextChannel_keepsLocals ==
    /\ proc = "up" /\ pc = "done"
    /\ IF i < Len(config.channels)
       THEN /\ i' = i + 1
            /\ pc' = "loop"
            /\ timer' = timer
       ELSE /\ i' = 0
            /\ pc' = "idle"
            /\ timer' = TRUE
    /\ loc' = [NoLocals EXCEPT !.currentStreamRow = loc.currentStreamRow]
    /\ calls' = <<>> /\ pre' = NoPre /\ fresh' = FALSE
    /\ UNCHANGED <<proc, db, clock, nextMsg>>

\* Mutant of NextChannel: the timer set inside the for loop, after every
\* channel, instead of after the loop.
NextChannel_timerInLoop ==
    /\ proc = "up" /\ pc = "done"
    /\ IF i < Len(config.channels)
       THEN /\ i' = i + 1
            /\ pc' = "loop"
       ELSE /\ i' = 0
            /\ pc' = "idle"
    /\ timer' = TRUE
    /\ loc' = NoLocals /\ calls' = <<>> /\ pre' = NoPre /\ fresh' = FALSE
    /\ UNCHANGED <<proc, db, clock, nextMsg>>

\* End of the loop body: the next channel of config.channels, or, after the
\* last, checkAllChannels returns and mainLoop's finally sets the timer.
NextChannel ==
    /\ proc = "up" /\ pc = "done"
    /\ IF i < Len(config.channels)
       THEN /\ i' = i + 1
            /\ pc' = "loop"
            /\ timer' = timer
       ELSE /\ i' = 0
            /\ pc' = "idle"
            /\ timer' = TRUE
    /\ loc' = NoLocals /\ calls' = <<>> /\ pre' = NoPre /\ fresh' = FALSE
    /\ UNCHANGED <<proc, db, clock, nextMsg>>

\* The 60 s timer fires: mainLoop calls checkAllChannels again.
TimerFire ==
    /\ proc = "up" /\ pc = "idle" /\ timer
    /\ timer' = FALSE
    /\ pc' = "loop"
    /\ i' = 1
    /\ UNCHANGED <<fresh, proc, db, clock, nextMsg, loc, calls, pre>>

\* The process is stopped (killed, or restarted by the supervisor on a file
\* change): everything in memory is lost, the database file stays.
ProcessStop ==
    /\ proc = "up"
    /\ proc' = "down" /\ timer' = FALSE /\ pc' = "off" /\ i' = 0
    /\ loc' = NoLocals /\ calls' = <<>> /\ pre' = NoPre /\ fresh' = FALSE
    /\ UNCHANGED <<db, clock, nextMsg>>

\* The supervisor starts the process: startBot awaits mainLoop.
startBot ==
    /\ proc = "down"
    /\ proc' = "up" /\ pc' = "loop" /\ i' = 1 /\ fresh' = TRUE
    /\ UNCHANGED <<timer, db, clock, nextMsg, loc, calls, pre>>

Next ==
    \/ QueryChannel \/ FetchChannelID \/ FetchIsLive
    \/ StartSend \/ StartInsert
    \/ ContinueLive \/ RefreshResult
    \/ StopUpdate \/ StopInsert \/ StopEdit
    \/ CatchChannel \/ MainCatch
    \/ NextChannel \/ TimerFire
    \/ ProcessStop \/ startBot

Spec == Init /\ [][Next]_vars

\* The timer set by setTimeout fires, and the supervisor (ecosystem file,
\* autorestart) starts a process that has ended.
FairSpec == Spec /\ WF_vars(TimerFire) /\ WF_vars(startBot)

\* ------------------------------------------- the duration of a closed session
\* startTime of the session that is stopped, and how long it lasted: whole
\* hours 0 .. MaxHours plus 0, 1, 45 or 59 minutes plus 0 or 59999 ms.
DurationStarts == {0, THUMBNAIL_REFRESH_INTERVAL - 1}
DurationLengths ==
    {h * (60 * 60 * 1000) + m * (60 * 1000) + ms :
        h \in 0..MaxHours, m \in {0, 1, 45, 59}, ms \in {0, 59999}}

\* The row of a session of "nova" opened at startTime, as [A] inserts it.
sessionRow(startTime) ==
    [channel |-> TwitchUserId["nova"], startTime |-> startTime, endTime |-> NULL,
     messageID |-> 1, messageLink |-> messageLink(1),
     thumbnailURL |-> baseThumbUrl([live |-> TRUE, thumbnail_url |-> ThumbnailTemplate]),
     lastThumbUpdate |-> startTime]

\* The program just after the UPDATE of line 360 in the Stop of a session
\* that began at startTime and ends at endTime = Date.now().
DurationInit ==
    \E startTime \in DurationStarts, durationMs \in DurationLengths :
        LET endTime == startTime + durationMs
            row == sessionRow(startTime)
            nova == {[channelName |-> "nova", channelID |-> TwitchUserId["nova"]]}
        IN  /\ proc = "up" /\ timer = FALSE /\ pc = "history" /\ i = 1
            /\ Channels = nova
            /\ ChannelData = <<[row EXCEPT !.endTime = endTime]>>
            /\ MessageHistory = <<>>
            /\ ErrorLog = <<>>
            /\ clock = endTime
            /\ nextMsg = 2
            /\ loc = [NoLocals EXCEPT !.channelID = TwitchUserId["nova"],
                                      !.answer = "offline",
                                      !.currentStreamRow = [rowid |-> 1, row |-> row],
                                      !.endTime = endTime]
            /\ calls = <<>>
            /\ pre = [Channels |-> nova, ChannelData |-> <<row>>,
                      MessageHistory |-> <<>>, ErrorLog |-> <<>>]
            /\ fresh = FALSE

\* From there: the duration is computed and the MessageHistory row inserted.
DurationNext == StopInsert

DurationSpec == DurationInit /\ [][DurationNext]_vars

\* ----------------------------------------------------------------- claims
\* A loop iteration (one reconcile of config.channels[i]) has just ended:
\* loc, calls and pre still hold what it did.
Done == proc = "up" /\ pc = "done"

Rows == 1..Len(ChannelData)

IsOpen(k) == ChannelData[k].endTime = NULL

\* C1: at no time does ChannelData hold two rows with endTime NULL for the
\* same channel id, whatever Twitch answers, whatever the webhook and the
\* database do, and although "nova" is listed twice in config.channels.
C1_AtMostOneOpenSession ==
    \A k \in Rows, j \in Rows :
        (IsOpen(k) /\ IsOpen(j) /\ ChannelData[k].channel = ChannelData[j].channel)
            => k = j

\* C1 witness: the second listing of "nova" found the channel live with its
\* session open, after an earlier session of the channel was closed.
C1_Witness ==
    /\ Done /\ i = 2
    /\ loc.answer = "live" /\ loc.currentStreamRow # NoRow
    /\ \E k \in Rows : ~IsOpen(k)
    /\ \E k \in Rows : IsOpen(k)

\* C2: a row's endTime, once set, is never changed nor cleared by a later
\* step (and the row is never removed), and every closed row has
\* endTime >= startTime; Date.now() never goes backwards in the model.
C2_EndSetOnce ==
    /\ [](\A k \in Rows : ~IsOpen(k) =>
              ChannelData[k].endTime >= ChannelData[k].startTime)
    /\ [][\A k \in Rows : ~IsOpen(k) =>
              /\ k <= Len(ChannelData')
              /\ ChannelData'[k].endTime = ChannelData[k].endTime]_vars

\* C2 witness: a session was closed, and a later session of the same channel
\* was closed at a later instant.
C2_Witness ==
    \E k \in Rows, j \in Rows :
        /\ k < j /\ ~IsOpen(k) /\ ~IsOpen(j)
        /\ ChannelData[k].endTime < ChannelData[j].endTime

\* What the iteration that just ended saw and did.
SawLive == loc.answer = "live"
SawNotLive == loc.answer \in {"offline", "unknown"}
HadOpen == loc.currentStreamRow # NoRow
SendOk == loc.messageID # 0
Sends == {k \in 1..Len(calls) : calls[k].op = "send"}
Edits == {k \in 1..Len(calls) : calls[k].op = "edit"}
\* The open row the iteration found, as the table held it when it began.
PreRow == pre.ChannelData[loc.currentStreamRow.rowid]
TenMinutes == 600000

\* The effect C3 states: one send, and one new open row for the channel with
\* the id the send returned and the template with 1280 and 720 in it.
StartEffect ==
    /\ Cardinality(Sends) = 1
    /\ Len(ChannelData) = Len(pre.ChannelData) + 1
    /\ SubSeq(ChannelData, 1, Len(pre.ChannelData)) = pre.ChannelData
    /\ LET new == ChannelData[Len(ChannelData)]
       IN  /\ new.channel = loc.channelID
           /\ new.endTime = NULL
           /\ new.messageID = loc.messageID
           /\ new.thumbnailURL = <<"https://x/", "1280", "x", "720", ".jpg">>

RefreshGate ==
    /\ (Edits # {}) <=> (loc.now - PreRow.lastThumbUpdate >= TenMinutes)
    /\ Cardinality(Edits) <= 1
    /\ Sends = {}

C5_NoTransitionNoEffect ==
    (/\ Done
     /\ \/ SawLive /\ HadOpen /\ loc.now - PreRow.lastThumbUpdate < TenMinutes
        \/ SawNotLive /\ ~HadOpen)
    => /\ ChannelData = pre.ChannelData
       /\ MessageHistory = pre.MessageHistory
       /\ ErrorLog = pre.ErrorLog
       /\ calls = <<>>

\* C5 witness: a repeated live tick inside the interval: the second listing
\* of the channel in a tick that is not the process's first, one millisecond
\* before the refresh is due.
C5_Witness ==
    /\ Done /\ i = 2 /\ ~fresh
    /\ SawLive /\ HadOpen
    /\ loc.now - PreRow.lastThumbUpdate = TenMinutes - 1

\* The effect C6 states: the row is closed at the instant read, the channel
\* has no open row, and one MessageHistory row with the session's channel,
\* start, end and message id was appended.
StopEffect ==
    /\ ChannelData[loc.currentStreamRow.rowid].endTime = loc.endTime
    /\ loc.endTime # NULL
    /\ \A k \in Rows : ChannelData[k].channel = loc.channelID => ~IsOpen(k)
    /\ Len(MessageHistory) = Len(pre.MessageHistory) + 1
    /\ SubSeq(MessageHistory, 1, Len(pre.MessageHistory)) = pre.MessageHistory
    /\ LET h == MessageHistory[Len(MessageHistory)]
       IN  /\ h.channel = PreRow.channel
           /\ h.startTime = PreRow.startTime
           /\ h.endTime = loc.endTime
           /\ h.messageID = PreRow.messageID

C7_Original ==
    [][(proc = "up" /\ pc = "catch" /\ proc' = "up") =>
          /\ pc' = "done"
          /\ Len(ErrorLog') = Len(ErrorLog) + 1]_vars

C9_TickFromStoreOnly ==
    /\ [][(pc # "loop" /\ pc' = "loop" /\ i' = 1) =>
              /\ loc' = NoLocals /\ calls' = <<>> /\ pre' = NoPre
              /\ timer' = FALSE
              /\ UNCHANGED <<db, clock, nextMsg>>]_vars
    /\ []((proc = "up" /\ HadOpen) =>
              /\ loc.currentStreamRow.rowid \in 1..Len(pre.ChannelData)
              /\ loc.currentStreamRow.row = PreRow
              /\ PreRow.endTime = NULL
              /\ PreRow.channel = loc.channelID
              /\ \A k \in Edits : calls[k].ref = PreRow.messageID)

\* C9 witness: the first iteration of a restarted process found the session
\* an earlier process had opened and edited its message (a refresh or a
\* stop).
C9_Witness ==
    /\ Done /\ fresh /\ i = 1 /\ HadOpen
    /\ Edits # {} /\ loc.edit = "ok"

\* C10 as stated: when fetchIsLive throws, exactly one ErrorLog row of type
\* "checkAllChannels" is inserted, ChannelData and MessageHistory are as they
\* were, no webhook call is made, and the iteration ends so that the next
\* channel is processed.
C10_Original ==
    [][(proc = "up" /\ pc = "catch" /\ loc.answer = "throw" /\ proc' = "up") =>
          /\ pc' = "done"
          /\ ErrorLog' = Append(pre.ErrorLog, [errorType |-> "checkAllChannels"])
          /\ ChannelData' = pre.ChannelData
          /\ MessageHistory' = pre.MessageHistory
          /\ calls' = <<>>]_vars

\* A Stop whose edit of the notification message failed.
StopEditFailed == SawNotLive /\ HadOpen /\ loc.edit = "failed"

\* No edit issued in the iteration targets the message of a session that was
\* already closed when the iteration began.
NoEditOfClosed ==
    \A k \in Edits : \A r \in 1..Len(pre.ChannelData) :
        pre.ChannelData[r].endTime # NULL =>
            calls[k].ref # pre.ChannelData[r].messageID

StreamEndUpdateRow == [errorType |-> "StreamEndUpdate"]

C12_Original ==
    (Done /\ SawLive /\ HadOpen /\ loc.edit = "failed") =>
        /\ ErrorLog = Append(pre.ErrorLog, [errorType |-> "ThumbnailRefresh"])
        /\ ChannelData[loc.currentStreamRow.rowid].lastThumbUpdate = loc.now

\* What the code does instead on a failed refresh edit that was logged: the
\* row keeps the lastThumbUpdate it had, so the gate stays open.
C12_KeepsLastRefresh ==
    (Done /\ SawLive /\ HadOpen /\ loc.edit = "failed") =>
        /\ ChannelData = pre.ChannelData
        /\ refreshDue(loc.now, ChannelData[loc.currentStreamRow.rowid].lastThumbUpdate)

\* A Start whose webhookClient.send threw.
SendFailed == SawLive /\ ~HadOpen /\ Sends # {} /\ ~SendOk

\* C13 as stated: when the send fails during a Start, an open row for the
\* channel exists in ChannelData after the iteration (so that the next live
\* tick takes the Continue branch and sends nothing).
C13_Original ==
    (Done /\ SendFailed) =>
        \E k \in Rows : ChannelData[k].channel = loc.channelID /\ IsOpen(k)

\* What the code does instead: a failed send leaves ChannelData as it was,
\* with no open row for the channel, so the next live tick is a Start again.
C13_NoSessionAfterFailedSend ==
    (proc = "up" /\ SendFailed) =>
        /\ ChannelData = pre.ChannelData
        /\ openRows(loc.channelID) = {}

\* fetchChannelID returned null (helix/users not ok, or no such login): the
\* iteration ended at `continue` with no id and no exception.
ResolutionFailed == loc.channelID = "" /\ loc.err = ""

\* A failure of one of the four categories happened in the iteration that
\* just ended: (a) no id for the name, (b) the liveness query failed, by a
\* non-success response or by throwing, (c) a send or an edit threw, (d) a
\* database operation threw.
FailureOccurred ==
    \/ ResolutionFailed \/ (loc.err = "oracle" /\ loc.answer = "")
    \/ loc.answer \in {"unknown", "throw"}
    \/ loc.edit = "failed" \/ (Sends # {} /\ ~SendOk)
    \/ loc.err = "store"

\* C14 as stated: every such failure has appended a row to ErrorLog in the
\* same iteration, also when Twitch reported it by a non-success response.
C14_Original ==
    (Done /\ FailureOccurred) => Len(ErrorLog) > Len(pre.ErrorLog)

\* What the code does: a failure that throws is logged when logError's own
\* INSERT does not throw, and a non-success response of Twitch writes no row.
C14_OnlyThrownAreLogged ==
    /\ (Done /\ loc.err \in {"oracle", "sink", "store"}) =>
          Len(ErrorLog) = Len(pre.ErrorLog) + 1
    /\ (Done /\ loc.err = "" /\ (ResolutionFailed \/ loc.answer = "unknown")) =>
          ErrorLog = pre.ErrorLog

\* The iteration has no id for the name because fetchChannelID returned null
\* or threw (and the iteration is over, or in a catch).
ResolutionStopped ==
    /\ proc = "up" /\ pc \in {"done", "catch", "mainCatch"}
    /\ loc.channelID = "" /\ loc.err \in {"", "oracle"}

\* C15: when the name has no row in Channels and fetchChannelID returns null
\* or throws, the iteration stops there: Channels, ChannelData and
\* MessageHistory are as they were, fetchIsLive was not called (it is only
\* ever called with an id), no webhook call was made, and the name still has
\* no row, so that the next iteration for it calls fetchChannelID again
\* (unless its SELECT throws); a row of Channels, once there, is never
\* changed nor deleted, and no name has two rows.
C15_ResolutionFailureStops ==
    /\ [](ResolutionStopped =>
              /\ Channels = pre.Channels
              /\ ChannelData = pre.ChannelData
              /\ MessageHistory = pre.MessageHistory
              /\ calls = <<>>
              /\ loc.answer = ""
              /\ channelRow(config.channels[i]) = "")
    /\ []((proc = "up" /\ pc = "live") => loc.channelID # "")
    /\ [][(pc = "loop" /\ pc' \notin {"loop", "off"}
             /\ channelRow(config.channels[i]) = "") =>
              pc' \in {"resolve", "catch"}]_vars
    /\ [][\A r \in Channels : r \in Channels']_vars
    /\ [](\A r1 \in Channels, r2 \in Channels :
              r1.channelName = r2.channelName => r1 = r2)

\* C15 witness: in a tick that is not the process's first, with nothing ever
\* logged, fetchChannelID was called again for the name and returned null
\* again.
C15_Witness ==
    /\ Done /\ ~fresh /\ i = 1 /\ ResolutionFailed
    /\ ErrorLog = <<>> /\ Channels = {}

\* The index of the last channel of config.channels; i is 0 while no tick runs.
LastChannel == Len(config.channels)

\* C16 as stated: no timer is pending while a tick runs; the index moves from
\* channel i to i + 1 only when the iteration of channel i is over; a tick
\* ends only when the iteration of the last channel is over; and a tick
\* begins only when none is running.
C16_Original ==
    /\ [](timer => (proc = "up" /\ pc = "idle"))
    /\ [][(i >= 1 /\ i' # i) =>
              /\ pc = "done"
              /\ \/ i < LastChannel /\ i' = i + 1
                 \/ i = LastChannel /\ i' = 0]_vars
    /\ [][(i = 0 /\ i' # 0) =>
              (i' = 1 /\ pc \in {"idle", "off"} /\ pc' = "loop")]_vars

\* C16 amended: the same, where a tick also ends, before its last channel,
\* when an exception escapes checkAllChannels (a throwing logError in the
\* loop's catch) or when the process is stopped; the next tick still begins
\* only after that end.
C16_Sequential ==
    /\ [](timer => (proc = "up" /\ pc = "idle"))
    /\ [](i \in 0..LastChannel /\ (i = 0 <=> pc \in {"idle", "off"}))
    /\ [][(i >= 1 /\ i' # i) =>
              \/ pc = "done" /\ i < LastChannel /\ i' = i + 1 /\ pc' = "loop"
              \/ pc = "done" /\ i = LastChannel /\ i' = 0 /\ pc' = "idle"
              \/ pc = "mainCatch" /\ i' = 0 /\ pc' \in {"idle", "off"}
              \/ proc' = "down" /\ i' = 0 /\ pc' = "off"]_vars
    /\ [][(i = 0 /\ i' # 0) =>
              (i' = 1 /\ pc \in {"idle", "off"} /\ pc' = "loop")]_vars
    /\ [][(pc = "loop" /\ pc' # "loop" /\ proc' = "up") =>
              (i' = i /\ pre' = Snapshot)]_vars

\* C16 witness: the second channel of a later tick is about to be reconciled:
\* a session was opened, closed and another opened by the iterations before
\* it, one after the other, with no failure.
C16_Witness ==
    /\ proc = "up" /\ pc = "loop" /\ i = 2 /\ ~timer
    /\ Len(ChannelData) = 2 /\ ~IsOpen(1) /\ IsOpen(2)
    /\ Len(MessageHistory) = 1 /\ ErrorLog = <<>>

\* A Start that sent the notification and inserted the session row.
StartDone == Done /\ SawLive /\ ~HadOpen /\ SendOk /\ loc.err = ""
\* The row it inserted and the send it issued.
NewRow == ChannelData[Len(ChannelData)]
SentCall == calls[CHOOSE k \in Sends : TRUE]

\* C17 as stated: after a Start the row has startTime = T0 and
\* lastThumbUpdate = T0, and the image of the notification sent is the row's
\* thumbnailURL followed by ?t=T0, also when the clock advances while the
\* send is awaited.
C17_Original ==
    StartDone =>
        /\ NewRow.lastThumbUpdate = NewRow.startTime
        /\ SentCall.t = NewRow.startTime
        /\ SentCall.image = NewRow.thumbnailURL

\* C17 amended: the row's startTime is the clock read before the embed is
\* built, the image is the row's thumbnailURL followed by ?t= the clock read
\* while the embed is built, and lastThumbUpdate is the clock read after the
\* send has returned: startTime <= t <= lastThumbUpdate, with lastThumbUpdate
\* the last value the clock gave.
C17_ThreeClockReads ==
    StartDone =>
        /\ NewRow.startTime = loc.startTime
        /\ SentCall.t = loc.imageT
        /\ SentCall.image = NewRow.thumbnailURL
        /\ NewRow.startTime <= SentCall.t
        /\ SentCall.t <= NewRow.lastThumbUpdate
        /\ NewRow.lastThumbUpdate = clock

\* C17 witness: the clock advanced while the send was awaited, so the row's
\* lastThumbUpdate is later than its startTime and than the t of the image.
C17_Witness ==
    /\ StartDone
    /\ SentCall.t = NewRow.startTime
    /\ NewRow.lastThumbUpdate > NewRow.startTime

\* C18: no step removes a row of ChannelData or changes its channel,
\* startTime, messageID or messageLink; the endTime of an open row is set
\* only by the Stop of an iteration that found the channel not live and the
\* row open; after a Continue (the channel live, the row open), refreshed or
\* not, the row is the one the iteration found but for lastThumbUpdate, still
\* open; and every edit of an iteration that found an open row goes to the
\* messageID stored in that row.
C18_OnlyThumbnailFields ==
    /\ [][\A k \in Rows :
              /\ k <= Len(ChannelData')
              /\ ChannelData'[k].channel = ChannelData[k].channel
              /\ ChannelData'[k].startTime = ChannelData[k].startTime
              /\ ChannelData'[k].messageID = ChannelData[k].messageID
              /\ ChannelData'[k].messageLink = ChannelData[k].messageLink
              /\ (IsOpen(k) /\ ChannelData'[k].endTime # NULL) =>
                    /\ pc = "stop" /\ SawNotLive
                    /\ k = loc.currentStreamRow.rowid]_vars
    /\ []((Done /\ SawLive /\ HadOpen) =>
              LET k == loc.currentStreamRow.rowid
              IN  /\ IsOpen(k)
                  /\ [ChannelData[k] EXCEPT !.lastThumbUpdate = 0] =
                         [PreRow EXCEPT !.lastThumbUpdate = 0]
                  /\ \A j \in Rows : j # k => ChannelData[j] = pre.ChannelData[j])
    /\ []((proc = "up" /\ HadOpen) =>
              \A e \in Edits :
                  calls[e].ref = ChannelData[loc.currentStreamRow.rowid].messageID)

\* C18 witness: a Continue in a tick that is not the process's first
\* refreshed the thumbnail: the row's lastThumbUpdate changed and nothing
\* else did.
C18_Witness ==
    /\ Done /\ ~fresh /\ SawLive /\ HadOpen /\ loc.edit = "ok" /\ loc.err = ""
    /\ ChannelData[loc.currentStreamRow.rowid].lastThumbUpdate # PreRow.lastThumbUpdate

\* The duration the claim describes for ms milliseconds: h = floor(ms /
\* 3600000), m = floor(ms / 60000) mod 60, rendered "<h>h <m>m" when h >= 1
\* and "<m>m" when h = 0.
RenderedDuration(ms) ==
    LET h == ms \div 3600000
        m == (ms \div 60000) % 60
    IN  IF h >= 1 THEN [text |-> "h m", h |-> h, m |-> m]
        ELSE [text |-> "m", h |-> NULL, m |-> m]

\* C19: the vodDuration of every MessageHistory row is the duration the claim
\* describes for endTime - startTime, which is never negative; 45 minutes
\* give "45m".
C19_DurationFormat ==
    /\ \A k \in 1..Len(MessageHistory) :
          LET ms == MessageHistory[k].endTime - MessageHistory[k].startTime
          IN  /\ ms >= 0
              /\ MessageHistory[k].vodDuration = RenderedDuration(ms)
    /\ vodDuration(45 * 60 * 1000) = [text |-> "m", h |-> NULL, m |-> 45]

\* C19 witness: the history row of a session that lasted 1 h 59 min 59.999 s
\* was written with the duration "1h 59m".
C19_Witness ==
    \E k \in 1..Len(MessageHistory) :
        /\ MessageHistory[k].endTime - MessageHistory[k].startTime = 7199999
        /\ MessageHistory[k].vodDuration = [text |-> "h m", h |-> 1, m |-> 59]

\* No iteration is part-way: the loop is between two channels, or no tick is
\* running, or the process is down.
BetweenReconciles == pc \in {"loop", "done", "idle", "off"}

History == 1..Len(MessageHistory)

\* Row h of MessageHistory is the summary of row k of ChannelData.
Summarises(h, k) ==
    /\ MessageHistory[h].channel = ChannelData[k].channel
    /\ MessageHistory[h].startTime = ChannelData[k].startTime
    /\ MessageHistory[h].endTime = ChannelData[k].endTime
    /\ MessageHistory[h].messageID = ChannelData[k].messageID

\* C20 as stated: between reconciles, also after a store failure or a process
\* stop part-way through a Stop, every closed row of ChannelData has exactly
\* one MessageHistory row with its channel, startTime and endTime, and every
\* MessageHistory row is the summary of exactly one closed row.
C20_Original ==
    BetweenReconciles =>
        /\ \A k \in Rows : ~IsOpen(k) =>
              Cardinality({h \in History : Summarises(h, k)}) = 1
        /\ \A h \in History :
              Cardinality({k \in Rows : ~IsOpen(k) /\ Summarises(h, k)}) = 1

\* What the code keeps: every MessageHistory row is the summary of exactly
\* one closed row, a closed row has at most one, and MessageHistory rows are
\* never changed nor removed. A closed row may have none.
C20_HistoryOfClosedOnly ==
    /\ [](BetweenReconciles =>
              /\ \A h \in History :
                    Cardinality({k \in Rows : ~IsOpen(k) /\ Summarises(h, k)}) = 1
              /\ \A k \in Rows :
                    Cardinality({h \in History : Summarises(h, k)}) <= 1)
    /\ [][/\ Len(MessageHistory') >= Len(MessageHistory)
          /\ SubSeq(MessageHistory', 1, Len(MessageHistory)) = MessageHistory]_vars

\* A closed session with no MessageHistory row, seen by a later iteration
\* that found the channel with no open row: nothing will write the row.
C20_LostHistory ==
    /\ Done /\ ~HadOpen /\ loc.answer # "" /\ loc.err = ""
    /\ \E k \in Rows : ~IsOpen(k) /\ ~ \E h \in History : Summarises(h, k)

====
